---- MODULE Spec2Model ----
(***************************************************************************)
(* Model of the conlife backend: the Grid/Cell engine of src/grid.rs and   *)
(* the pattern loader of src/object.rs.                                    *)
(*                                                                         *)
(* A grid is a Vec<Vec<Cell>> indexed cells[row][column]; it is modelled   *)
(* as a function over 0..height-1 of functions over 0..width-1.  A         *)
(* coordinate is a pair <<x, y>> (column, row), as in the source.          *)
(***************************************************************************)
EXTENDS Integers, Sequences, FiniteSets, TLC

VARIABLES
    width,          \* Grid.width
    height,         \* Grid.height
    cells,          \* Grid.cells
    gen,            \* number of advance calls the caller has made
    fresh,          \* TRUE until the caller first writes an alive flag
    op,             \* the call that produced the current state
    object,         \* coordinates of the Object given to the last load_object
    offset,         \* offset given to the last load_object
    result,         \* "ok" when the last call returned, "panic" when it panicked
    initial_cells,  \* the caller's clone of grid.cells taken before the last call
    old_cells,      \* advance's local copy of the prior generation
    pc,             \* position of a running advance: "idle" or "loop"
    pos,            \* row-major index of the next cell the advance loop visits
    buffer,         \* the text given to the last Object::from_string
    tokens,         \* the coordinate pairs that text was written from
    parsed          \* what the last Object::from_string returned

vars == <<width, height, cells, gen, fresh, op, object, offset, result,
          initial_cells, old_cells, pc, pos, buffer, tokens, parsed>>

gridVars == <<width, height, cells, gen, fresh, op, object, offset, result,
              initial_cells, old_cells, pc, pos>>

parseVars == <<buffer, tokens, parsed>>

----------------------------------------------------------------------------
(* Bounds of the model                                                     *)

MaxCells == 9    \* grids of at most MaxCells cells are explored with every input
MaxGen == 2      \* the caller makes at most MaxGen advance calls
MaxOff == 1      \* offsets are drawn from 0..MaxOff
MaxTokens == 3   \* pattern texts hold at most MaxTokens tokens

(* The grid of the tests: Grid::new(8, 8)                                  *)
TestWidth == 8
TestHeight == 8

----------------------------------------------------------------------------
(* Cell                                                                    *)

\* Cell::new
Cell_new == [alive |-> FALSE, neighbour_indices |-> <<>>]

\* neighbour_count with the test negated: the dead neighbours are counted.
neighbour_count_of_dead(cell, cs) ==
    Cardinality({k \in 1..Len(cell.neighbour_indices) :
                    ~cs[cell.neighbour_indices[k][2]][cell.neighbour_indices[k][1]].alive})

\* Cell::neighbour_count: the number of positions of the cell's list whose
\* cell is alive in the grid `cs` it is given; position.1 is the row.
neighbour_count(cell, cs) ==
    Cardinality({k \in 1..Len(cell.neighbour_indices) :
                    cs[cell.neighbour_indices[k][2]][cell.neighbour_indices[k][1]].alive})

----------------------------------------------------------------------------
(* Grid::compute_neighbour_indices                                         *)

\* axis_indices on a torus: the first index takes the last as its
\* predecessor and the last takes the first as its successor.
axis_indices_wrapping(i, size) ==
    <<i>>
    \o (IF size > 2 THEN <<(i + size - 1) % size>> ELSE <<>>)
    \o (IF size > 1 THEN <<(i + 1) % size>> ELSE <<>>)

\* x_indices / y_indices of one axis: the index itself, then index - 1 when
\* the index is not 0, then index + 1 when it is not the last one; each
\* pushed only when the size exceeds it.
axis_indices(i, size) ==
    <<i>>
    \o (IF i # 0 THEN (IF size > i - 1 THEN <<i - 1>> ELSE <<>>) ELSE <<>>)
    \o (IF i # size - 1 THEN (IF size > i + 1 THEN <<i + 1>> ELSE <<>>) ELSE <<>>)

\* neighbour_positions without the test that skips the cell itself.
neighbour_positions_with_self(x, y, w, h) ==
    LET xi == axis_indices(x, w)
        yi == axis_indices(y, h)
    IN  [k \in 1..(Len(xi) * Len(yi)) |->
            <<xi[((k - 1) \div Len(yi)) + 1], yi[((k - 1) % Len(yi)) + 1]>>]

\* The nested loop over x_indices and y_indices, x outermost, skipping the
\* cell's own position.
neighbour_positions(x, y, w, h) ==
    LET xi == axis_indices(x, w)
        yi == axis_indices(y, h)
        cross == [k \in 1..(Len(xi) * Len(yi)) |->
                    <<xi[((k - 1) \div Len(yi)) + 1], yi[((k - 1) % Len(yi)) + 1]>>]
    IN  SelectSeq(cross, LAMBDA p : p[1] # x \/ p[2] # y)

\* compute_neighbour_indices taking the row index for x and the column
\* index for y.
compute_neighbour_indices_transposed(w, h, cs) ==
    [y \in DOMAIN cs |->
        [x \in DOMAIN cs[y] |->
            [cs[y][x] EXCEPT !.neighbour_indices = @ \o neighbour_positions(y, x, h, w)]]]

\* The loop over every cell: its list gets the positions computed for it.
compute_neighbour_indices(w, h, cs) ==
    [y \in DOMAIN cs |->
        [x \in DOMAIN cs[y] |->
            [cs[y][x] EXCEPT !.neighbour_indices = @ \o neighbour_positions(x, y, w, h)]]]

\* The unsigned subtractions of 1 the loop body evaluates for the cell at
\* (x, y), each with the value it subtracts from: x - 1 and y - 1 stand
\* behind the tests x != 0 and y != 0, width - 1 and height - 1 are part of
\* the tests themselves.
subtractions(x, y, w, h) ==
    (IF x # 0 THEN {<<"x - 1", x>>} ELSE {})
    \cup {<<"width - 1", w>>}
    \cup (IF y # 0 THEN {<<"y - 1", y>>} ELSE {})
    \cup {<<"height - 1", h>>}

\* The subtractions with width - 1 and height - 1 taken once before the
\* loops instead of inside the loop body.
new_subtractions_hoisted(w, h) ==
    {<<"width - 1", w>>, <<"height - 1", h>>}
    \cup UNION {subtractions(x, y, w, h) : x \in 0..(w - 1), y \in 0..(h - 1)}

\* The subtractions Grid::new evaluates: those of every cell the loops of
\* compute_neighbour_indices visit.
new_subtractions(w, h) ==
    UNION {subtractions(x, y, w, h) : x \in 0..(w - 1), y \in 0..(h - 1)}

\* How Grid::new ends: a usize subtraction from 0 panics in a build with
\* overflow checks and wraps around in one without; otherwise it returns.
Grid_new_outcomes(w, h) ==
    IF \E sub \in new_subtractions(w, h) : sub[2] = 0
    THEN {"ok", "panic"}
    ELSE {"ok"}

\* Grid::new: height rows of width dead cells, then the neighbour lists.
Grid_new(w, h) ==
    compute_neighbour_indices(w, h, [y \in 0..(h - 1) |-> [x \in 0..(w - 1) |-> Cell_new]])

----------------------------------------------------------------------------
(* Grid::advance                                                           *)

\* The match with the arm for 2 merged into the arm for 0 and 1.
next_alive_two_dies(count, alive) ==
    IF count <= 2 THEN FALSE
    ELSE IF count = 3 THEN TRUE
    ELSE FALSE

\* The match on the neighbour count: the alive flag the arm leaves.
next_alive(count, alive) ==
    IF count <= 1 THEN FALSE
    ELSE IF count = 2 THEN alive
    ELSE IF count = 3 THEN TRUE
    ELSE FALSE

\* The loop body counting in the cells being written instead of the copy.
advance_cell_in_place(cs, old, k, w) ==
    LET y == k \div w
        x == k % w
    IN  [cs EXCEPT ![y][x].alive = next_alive(neighbour_count(cs[y][x], cs), @)]

\* One iteration of the loop body, on the k-th cell in row-major order:
\* the count is taken from old, the flag is written into cs.
advance_cell(cs, old, k, w) ==
    LET y == k \div w
        x == k % w
    IN  [cs EXCEPT ![y][x].alive = next_alive(neighbour_count(cs[y][x], old), @)]

\* The inner loop: the cells of row y from column x on.
RECURSIVE advance_row(_, _, _, _, _)
advance_row(cs, old, y, x, w) ==
    IF x \notin DOMAIN cs[y] THEN cs
    ELSE advance_row(advance_cell(cs, old, y * w + x, w), old, y, x + 1, w)

\* The outer loop: the rows from row y on.
RECURSIVE advance_rows(_, _, _, _)
advance_rows(cs, old, y, w) ==
    IF y \notin DOMAIN cs THEN cs
    ELSE advance_rows(advance_row(cs, old, y, 0, w), old, y + 1, w)

\* advance calling compute_neighbour_indices again once the loops are over:
\* the positions are pushed onto the lists a second time.
advance_recomputing(cs, w) ==
    compute_neighbour_indices(w, Cardinality(DOMAIN cs), advance_rows(cs, cs, 0, w))

\* The whole of Grid::advance: clone, then the loops over every cell.
advance(cs, w) == advance_rows(cs, cs, 0, w)

----------------------------------------------------------------------------
(* Grid::load_object                                                       *)

\* The loop over object.coordinates from index i on.  get_mut on the row and
\* then on the column; a None makes expect panic, leaving what was written.
RECURSIVE load_from(_, _, _, _)
load_from(cs, obj, off, i) ==
    IF i > Len(obj) THEN [cells |-> cs, result |-> "ok"]
    ELSE LET x == obj[i][1] + off[1]
             y == obj[i][2] + off[2]
         IN  IF y \notin DOMAIN cs THEN [cells |-> cs, result |-> "panic"]
             ELSE IF x \notin DOMAIN cs[y] THEN [cells |-> cs, result |-> "panic"]
             ELSE load_from([cs EXCEPT ![y][x].alive = TRUE], obj, off, i + 1)

\* load_object indexing cells[x][y]: the column picks the row.
RECURSIVE load_from_transposed(_, _, _, _)
load_from_transposed(cs, obj, off, i) ==
    IF i > Len(obj) THEN [cells |-> cs, result |-> "ok"]
    ELSE LET x == obj[i][1] + off[1]
             y == obj[i][2] + off[2]
         IN  IF x \notin DOMAIN cs THEN [cells |-> cs, result |-> "panic"]
             ELSE IF y \notin DOMAIN cs[x] THEN [cells |-> cs, result |-> "panic"]
             ELSE load_from_transposed([cs EXCEPT ![x][y].alive = TRUE], obj, off, i + 1)

load_object_transposed(cs, obj, off) == load_from_transposed(cs, obj, off, 1)

\* load_object skipping the coordinates that are out of bounds.
RECURSIVE load_from_skipping(_, _, _, _)
load_from_skipping(cs, obj, off, i) ==
    IF i > Len(obj) THEN [cells |-> cs, result |-> "ok"]
    ELSE LET x == obj[i][1] + off[1]
             y == obj[i][2] + off[2]
         IN  IF y \notin DOMAIN cs \/ x \notin DOMAIN cs[y]
             THEN load_from_skipping(cs, obj, off, i + 1)
             ELSE load_from_skipping([cs EXCEPT ![y][x].alive = TRUE], obj, off, i + 1)

load_object_skipping(cs, obj, off) == load_from_skipping(cs, obj, off, 1)

\* load_object applying every in-bounds coordinate before it panics.
load_object_continuing(cs, obj, off) ==
    [cells |-> load_from_skipping(cs, obj, off, 1).cells,
     result |-> load_from(cs, obj, off, 1).result]

\* The whole of Grid::load_object.
load_object(cs, obj, off) == load_from(cs, obj, off, 1)

----------------------------------------------------------------------------
(* Object::from_string.  A text is a sequence of one-character strings.    *)

Digits == <<"0", "1", "2", "3", "4", "5", "6", "7", "8", "9">>

Whitespace == {" ", "\n", "\t"}

\* str::replace: every non-overlapping match of `from`, left to right.
RECURSIVE replace(_, _, _)
replace(s, from, to) ==
    IF Len(s) < Len(from) THEN s
    ELSE IF SubSeq(s, 1, Len(from)) = from
         THEN to \o replace(SubSeq(s, Len(from) + 1, Len(s)), from, to)
         ELSE <<s[1]>> \o replace(Tail(s), from, to)

\* str::split_whitespace: the maximal runs of non-whitespace characters.
RECURSIVE split_whitespace_from(_, _, _)
split_whitespace_from(s, cur, acc) ==
    IF s = <<>> THEN (IF cur = <<>> THEN acc ELSE Append(acc, cur))
    ELSE IF s[1] \in Whitespace
         THEN split_whitespace_from(Tail(s), <<>>, IF cur = <<>> THEN acc ELSE Append(acc, cur))
         ELSE split_whitespace_from(Tail(s), Append(cur, s[1]), acc)

split_whitespace(s) == split_whitespace_from(s, <<>>, <<>>)

\* str::split(","): the pieces between the commas, empty pieces included.
RECURSIVE split_from(_, _, _, _)
split_from(s, sep, cur, acc) ==
    IF s = <<>> THEN Append(acc, cur)
    ELSE IF s[1] = sep THEN split_from(Tail(s), sep, <<>>, Append(acc, cur))
         ELSE split_from(Tail(s), sep, Append(cur, s[1]), acc)

split(s, sep) == split_from(s, sep, <<>>, <<>>)

RECURSIVE digits_value(_, _)
digits_value(s, acc) ==
    IF s = <<>> THEN acc
    ELSE digits_value(Tail(s),
                      acc * 10 + (CHOOSE d \in 0..9 : Digits[d + 1] = s[1]))

\* str::parse::<usize> on a piece: a non-empty run of decimal digits.
parse(s) ==
    IF s = <<>> \/ \E i \in 1..Len(s) : \A d \in 1..10 : Digits[d] # s[i]
    THEN [ok |-> FALSE, value |-> 0]
    ELSE [ok |-> TRUE, value |-> digits_value(s, 0)]

Ok(coordinates) == [kind |-> "Ok", coordinates |-> coordinates]
Err(error) == [kind |-> error, coordinates |-> <<>>]
Panic == [kind |-> "panic", coordinates |-> <<>>]

\* The loop over the whitespace-separated pieces without the test for a
\* coordinate already seen.
RECURSIVE parse_coords_keeping_duplicates(_, _, _)
parse_coords_keeping_duplicates(coords, i, coordinates) ==
    IF i > Len(coords)
    THEN (IF coordinates = <<>> THEN Err("NoCoordinatesFound") ELSE Ok(coordinates))
    ELSE LET coord_vals == split(coords[i], ",")
             x == parse(coord_vals[1])
         IN  IF ~x.ok THEN Panic
             ELSE IF Len(coord_vals) < 2 THEN Panic
             ELSE IF ~parse(coord_vals[2]).ok THEN Panic
             ELSE parse_coords_keeping_duplicates(coords, i + 1,
                      Append(coordinates, <<x.value, parse(coord_vals[2]).value>>))

\* The loop over the whitespace-separated pieces, then the test for an
\* empty result.  A piece that does not parse makes expect panic.
RECURSIVE parse_coords(_, _, _)
parse_coords(coords, i, coordinates) ==
    IF i > Len(coords)
    THEN (IF coordinates = <<>> THEN Err("NoCoordinatesFound") ELSE Ok(coordinates))
    ELSE LET coord_vals == split(coords[i], ",")
             x == parse(coord_vals[1])
         IN  IF ~x.ok THEN Panic
             ELSE IF Len(coord_vals) < 2 THEN Panic
             ELSE IF ~parse(coord_vals[2]).ok THEN Panic
             ELSE LET pair == <<x.value, parse(coord_vals[2]).value>>
                  IN  IF \E j \in 1..Len(coordinates) : coordinates[j] = pair
                      THEN Err("DuplicateCoordinate")
                      ELSE parse_coords(coords, i + 1, Append(coordinates, pair))

\* The four replacements and split_whitespace.
normalise(text) ==
    split_whitespace(
        replace(replace(replace(replace(text, <<"(">>, <<>>), <<")">>, <<>>),
                        <<",", " ">>, <<",">>),
                <<" ", ",">>, <<",">>))

from_string_keeping_duplicates(text) ==
    parse_coords_keeping_duplicates(normalise(text), 1, <<>>)

\* Object::from_string
from_string(text) == parse_coords(normalise(text), 1, <<>>)

----------------------------------------------------------------------------
(* Pattern texts: how a coordinate sequence is written down                *)

RECURSIVE to_decimal(_)
to_decimal(n) ==
    IF n < 10 THEN <<Digits[n + 1]>>
    ELSE to_decimal(n \div 10) \o <<Digits[(n % 10) + 1]>>

\* The ways the tests and objects/*.life write a pattern: what stands for
\* the comma, what separates two tokens, what ends the text.
Styles ==
    {[comma |-> <<",">>, sep |-> <<" ">>, end |-> <<>>],
     [comma |-> <<",">>, sep |-> <<"\n">>, end |-> <<"\n">>],
     [comma |-> <<",", " ">>, sep |-> <<" ">>, end |-> <<>>],
     [comma |-> <<" ", ",">>, sep |-> <<" ", " ">>, end |-> <<" ">>],
     [comma |-> <<" ", ",", " ">>, sep |-> <<"\n">>, end |-> <<>>]}

token_text(pair, style) ==
    <<"(">> \o to_decimal(pair[1]) \o style.comma \o to_decimal(pair[2]) \o <<")">>

RECURSIVE pattern_text_from(_, _, _)
pattern_text_from(toks, style, i) ==
    IF i > Len(toks) THEN style.end
    ELSE (IF i > 1 THEN style.sep ELSE <<>>)
         \o token_text(toks[i], style)
         \o pattern_text_from(toks, style, i + 1)

pattern_text(toks, style) == pattern_text_from(toks, style, 1)

\* Coordinate values written in the texts: one and two digits.
TokenValues == {0, 1, 12}

TokenSeqs == UNION {[1..n -> TokenValues \X TokenValues] : n \in 0..MaxTokens}

----------------------------------------------------------------------------
(* Inputs                                                                  *)

\* objects/glider.life, as the tests read it
Glider == <<<<0, 2>>, <<1, 2>>, <<2, 2>>, <<1, 0>>, <<2, 1>>>>

\* Object.coordinates is a public Vec: the empty one, each coordinate of
\* the unit square alone, then followed by its transpose (the same
\* coordinate twice on the diagonal), and the glider.
UnitSquare == {0, 1} \X {0, 1}

Objects ==
    {<<>>, Glider}
    \cup {<<c>> : c \in UnitSquare}
    \cup {<<c, <<c[2], c[1]>>>> : c \in UnitSquare}

Offsets == (0..MaxOff) \X (0..MaxOff)

IsTestGrid == width = TestWidth /\ height = TestHeight

\* Every input on the small grids; on the grid of the tests, the loads the
\* tests make (glider at (0,0) and at (1,1)).
LoadInputs ==
    IF IsTestGrid THEN {<<Glider, <<0, 0>>>>, <<Glider, <<1, 1>>>>}
    ELSE Objects \X Offsets

Dims ==
    {d \in (0..MaxCells) \X (0..MaxCells) : d[1] * d[2] <= MaxCells}
    \cup {<<TestWidth, TestHeight>>}

NoParse == [kind |-> "none", coordinates |-> <<>>]

----------------------------------------------------------------------------
(* The state machine                                                       *)

Init ==
    /\ \E d \in Dims :
        /\ width = d[1]
        /\ height = d[2]
        /\ cells = Grid_new(d[1], d[2])
        /\ initial_cells = Grid_new(d[1], d[2])
    /\ old_cells = <<>>
    /\ gen = 0
    /\ fresh = TRUE
    /\ op = "new"
    /\ object = <<>>
    /\ offset = <<0, 0>>
    /\ result \in Grid_new_outcomes(width, height)
    /\ pc = "idle"
    /\ pos = 0
    /\ buffer = <<>>
    /\ tokens = <<>>
    /\ parsed = NoParse

\* The caller holds a current clone of the cells and no call is running.
Ready == op \in {"new", "clone"} /\ pc = "idle" /\ result = "ok"

\* let initial_cells = grid.cells.clone(): the caller clones the cells
\* before its next call, as the tests do.
Clone ==
    /\ op \notin {"new", "clone"}
    /\ pc = "idle"
    /\ result = "ok"
    /\ initial_cells' = cells
    /\ op' = "clone"
    /\ object' = <<>>
    /\ offset' = <<0, 0>>
    /\ UNCHANGED <<width, height, cells, gen, fresh, result, old_cells, pc, pos>>
    /\ UNCHANGED parseVars

\* grid.load_object(&object, offset)
LoadObject ==
    /\ Ready
    /\ \E in \in LoadInputs :
        LET r == load_object(cells, in[1], in[2])
        IN  /\ cells' = r.cells
            /\ result' = r.result
            /\ object' = in[1]
            /\ offset' = in[2]
    /\ op' = "load_object"
    /\ fresh' = FALSE
    /\ UNCHANGED <<width, height, gen, initial_cells, old_cells, pc, pos>>
    /\ UNCHANGED parseVars

\* The caller's loop of test::full_grid_advance: every cell set alive
\* through the public field.
FillAlive ==
    /\ Ready
    /\ cells' = [y \in DOMAIN cells |-> [x \in DOMAIN cells[y] |->
                    [cells[y][x] EXCEPT !.alive = TRUE]]]
    /\ op' = "fill"
    /\ fresh' = FALSE
    /\ UNCHANGED <<width, height, gen, initial_cells, object, offset, result,
                   old_cells, pc, pos>>
    /\ UNCHANGED parseVars

\* grid.advance()
Advance ==
    /\ Ready
    /\ gen < MaxGen
    /\ cells' = advance(cells, width)
    /\ gen' = gen + 1
    /\ op' = "advance"
    /\ UNCHANGED <<width, height, initial_cells, fresh, object, offset, result,
                   old_cells, pc, pos>>
    /\ UNCHANGED parseVars

Next == Clone \/ LoadObject \/ FillAlive \/ Advance

Spec == Init /\ [][Next]_vars

----------------------------------------------------------------------------
(* Grid::advance, one loop iteration at a time                             *)

\* let old_cells = self.cells.clone()
AdvanceClone ==
    /\ Ready
    /\ gen < MaxGen
    /\ old_cells' = cells
    /\ pc' = "loop"
    /\ pos' = 0
    /\ UNCHANGED <<width, height, cells, gen, fresh, op, object, offset, result,
                   initial_cells>>
    /\ UNCHANGED parseVars

\* The body of the loop on the next cell in row-major order.
AdvanceCell ==
    /\ pc = "loop"
    /\ pos < width * height
    /\ cells' = advance_cell(cells, old_cells, pos, width)
    /\ pos' = pos + 1
    /\ UNCHANGED <<width, height, gen, fresh, op, object, offset, result,
                   initial_cells, old_cells, pc>>
    /\ UNCHANGED parseVars

\* The loop is over: advance returns and old_cells is dropped.
AdvanceReturn ==
    /\ pc = "loop"
    /\ pos >= width * height
    /\ pc' = "idle"
    /\ pos' = 0
    /\ old_cells' = <<>>
    /\ gen' = gen + 1
    /\ op' = "advance"
    /\ UNCHANGED <<width, height, cells, fresh, object, offset, result,
                   initial_cells>>
    /\ UNCHANGED parseVars

NextLoop ==
    Clone \/ LoadObject \/ FillAlive \/ AdvanceClone \/ AdvanceCell \/ AdvanceReturn

SpecLoop == Init /\ [][NextLoop]_vars

----------------------------------------------------------------------------
(* Object::from_string applied to the pattern texts                        *)

\* No grid has been built; a pattern text is about to be parsed.
InitParse ==
    /\ width = 0
    /\ height = 0
    /\ cells = <<>>
    /\ initial_cells = <<>>
    /\ old_cells = <<>>
    /\ gen = 0
    /\ fresh = TRUE
    /\ op = "none"
    /\ object = <<>>
    /\ offset = <<0, 0>>
    /\ result = "ok"
    /\ pc = "idle"
    /\ pos = 0
    /\ parsed = NoParse
    /\ \E toks \in TokenSeqs, style \in Styles :
        /\ tokens = toks
        /\ buffer = pattern_text(toks, style)

\* Object::from_string(buffer)
FromString ==
    /\ parsed.kind = "none"
    /\ parsed' = from_string(buffer)
    /\ UNCHANGED <<buffer, tokens>>
    /\ UNCHANGED gridVars

NextParse == FromString

SpecParse == InitParse /\ [][NextParse]_vars

----------------------------------------------------------------------------
(* Reference definitions used by the properties: they are written from the *)
(* geometry of the grid, not from the neighbour lists.                     *)

Positions == (0..(width - 1)) \X (0..(height - 1))

AliveSet(cs) == {p \in Positions : cs[p[2]][p[1]].alive}

\* The Moore neighbourhood of p on the non-wrapping grid.
Moore(p) ==
    {q \in ((p[1] - 1)..(p[1] + 1)) \X ((p[2] - 1)..(p[2] + 1)) :
        /\ q # p
        /\ q[1] >= 0 /\ q[1] < width
        /\ q[2] >= 0 /\ q[2] < height}

LiveNeighbours(cs, p) == Cardinality({q \in Moore(p) : cs[q[2]][q[1]].alive})

\* The rule table of B3/S23.
RuleTable(k, was) ==
    CASE k \in {0, 1} -> FALSE
      [] k = 2 -> was
      [] k = 3 -> TRUE
      [] OTHER -> FALSE

LifeStep(cs, p) == RuleTable(LiveNeighbours(cs, p), cs[p[2]][p[1]].alive)

Range(f) == {f[i] : i \in DOMAIN f}

IsCorner(p) == p[1] \in {0, width - 1} /\ p[2] \in {0, height - 1}
IsBoundary(p) == p[1] \in {0, width - 1} \/ p[2] \in {0, height - 1}

NeighbourList(p) == cells[p[2]][p[1]].neighbour_indices

\* Two cell arrays differ at most in alive flags.
SameLists(cs, ds) ==
    /\ DOMAIN cs = DOMAIN ds
    /\ \A y \in DOMAIN cs :
        /\ DOMAIN cs[y] = DOMAIN ds[y]
        /\ \A x \in DOMAIN cs[y] :
            cs[y][x].neighbour_indices = ds[y][x].neighbour_indices

\* The translated coordinate of the i-th entry of the last loaded object.
Target(i) == <<object[i][1] + offset[1], object[i][2] + offset[2]>>

OutOfBounds(i) == ~(Target(i)[1] < width /\ Target(i)[2] < height)

SomeOutOfBounds == \E i \in 1..Len(object) : OutOfBounds(i)

\* Index of the first out-of-bounds entry (Len + 1 when there is none).
FirstOutOfBounds ==
    IF SomeOutOfBounds
    THEN CHOOSE i \in 1..Len(object) :
            OutOfBounds(i) /\ \A j \in 1..(i - 1) : ~OutOfBounds(j)
    ELSE Len(object) + 1

GliderSet == Range(Glider)

GliderAfterOneStep == {<<0, 1>>, <<1, 2>>, <<1, 3>>, <<2, 1>>, <<2, 2>>}

----------------------------------------------------------------------------
(* Properties                                                              *)

\* C1: after one advance on a grid of positive size every cell is in the
\* state the B3/S23 rule table gives for the number of its Moore neighbours
\* alive before the call; the glider loaded at (0,0) on the 8x8 grid has
\* exactly (0,1) (1,2) (1,3) (2,1) (2,2) alive after one advance.
AdvanceIsLifeStep ==
    op = "advance" =>
        /\ \A p \in Positions : cells[p[2]][p[1]].alive = LifeStep(initial_cells, p)
        /\ (IsTestGrid /\ AliveSet(initial_cells) = GliderSet)
              => AliveSet(cells) = GliderAfterOneStep

GliderAdvanced ==
    /\ op = "advance"
    /\ IsTestGrid
    /\ AliveSet(initial_cells) = GliderSet
    /\ AliveSet(cells) # GliderSet

\* C3: every cell's neighbour list holds, without duplicates, exactly the
\* in-bounds Moore neighbourhood of the cell, on square and non-square
\* grids alike.
NeighbourListsAreMoore ==
    \A p \in Positions :
        /\ Range(NeighbourList(p)) = Moore(p)
        /\ Len(NeighbourList(p)) = Cardinality(Moore(p))

NonSquareGridBuilt ==
    /\ op = "new"
    /\ width = 4
    /\ height = 2
    /\ Len(NeighbourList(<<1, 1>>)) = 5

\* C4 as stated: on every grid of positive size a corner cell has 3
\* neighbours, an edge cell 5 and an interior cell 8.
NeighbourCountsOnEveryGrid ==
    \A p \in Positions :
        /\ IsCorner(p) => Len(NeighbourList(p)) = 3
        /\ (IsBoundary(p) /\ ~IsCorner(p)) => Len(NeighbourList(p)) = 5
        /\ ~IsBoundary(p) => Len(NeighbourList(p)) = 8
        /\ Len(NeighbourList(p)) \in 3..8

\* C4 as amended: the counts 3, 5 and 8 hold on every grid at least two
\* cells wide and two cells high.
NeighbourCountsFromTwoByTwo ==
    (width >= 2 /\ height >= 2) =>
        \A p \in Positions :
            /\ IsCorner(p) => Len(NeighbourList(p)) = 3
            /\ (IsBoundary(p) /\ ~IsCorner(p)) => Len(NeighbourList(p)) = 5
            /\ ~IsBoundary(p) => Len(NeighbourList(p)) = 8
            /\ Len(NeighbourList(p)) \in 3..8

GridWithAllThreeKinds ==
    /\ width = 3
    /\ height = 3
    /\ Len(NeighbourList(<<0, 0>>)) = 3
    /\ Len(NeighbourList(<<1, 0>>)) = 5
    /\ Len(NeighbourList(<<1, 1>>)) = 8

\* C5: a load whose translated coordinates are all inside the grid returns
\* and leaves alive exactly the cells alive before together with the
\* translated coordinates, changing nothing else; on a grid with no cell
\* alive the alive cells are exactly the translated pattern.
LoadSetsExactlyTranslated ==
    (op = "load_object" /\ ~SomeOutOfBounds) =>
        /\ result = "ok"
        /\ AliveSet(cells) =
              AliveSet(initial_cells) \cup {Target(i) : i \in 1..Len(object)}
        /\ SameLists(cells, initial_cells)
        /\ AliveSet(initial_cells) = {}
              => AliveSet(cells) = {Target(i) : i \in 1..Len(object)}

GliderLoadedOverLiveCells ==
    /\ op = "load_object"
    /\ ~SomeOutOfBounds
    /\ object = Glider
    /\ offset = <<1, 1>>
    /\ AliveSet(initial_cells) # {}
    /\ AliveSet(cells) # AliveSet(initial_cells)

LoadAppliesOnlyPrefix ==
    (op = "load_object" /\ SomeOutOfBounds) =>
        /\ AliveSet(cells) =
              AliveSet(initial_cells) \cup {Target(i) : i \in 1..(FirstOutOfBounds - 1)}
        /\ SameLists(cells, initial_cells)
        /\ DOMAIN cells = 0..(height - 1)
        /\ \A y \in DOMAIN cells : DOMAIN cells[y] = 0..(width - 1)

LoadStoppedMidObject ==
    /\ op = "load_object"
    /\ SomeOutOfBounds
    /\ FirstOutOfBounds > 1
    /\ AliveSet(cells) # AliveSet(initial_cells)
    /\ \E i \in (FirstOutOfBounds + 1)..Len(object) :
          ~OutOfBounds(i) /\ Target(i) \notin AliveSet(cells)

\* C8: advancing a grid with no cell alive leaves the whole cell array as
\* it was, and as long as only advance has been called on a constructed
\* grid every cell is dead.
DeadGridStaysDead ==
    /\ (op = "advance" /\ AliveSet(initial_cells) = {}) => cells = initial_cells
    /\ fresh => AliveSet(cells) = {}

FreshGridAdvancedTwice ==
    /\ fresh
    /\ op = "advance"
    /\ gen = 2
    /\ width = 3
    /\ height = 3

\* C9: one advance of a grid with every cell alive, at least two cells wide
\* and high, leaves alive exactly the four corner cells.
FullGridLeavesCorners ==
    (op = "advance" /\ AliveSet(initial_cells) = Positions
                    /\ width >= 2 /\ height >= 2) =>
        AliveSet(cells) = {p \in Positions : IsCorner(p)}

FullTestGridAdvanced ==
    /\ op = "advance"
    /\ IsTestGrid
    /\ AliveSet(initial_cells) = Positions
    /\ Cardinality(AliveSet(cells)) = 4

\* C2: while advance runs, old_cells is the complete generation before the
\* call, every cell already visited holds the state the rule gives from
\* old_cells alone, and every cell not yet visited is as in old_cells.
AdvanceReadsOnlyTheCopy ==
    pc = "loop" =>
        /\ old_cells = initial_cells
        /\ \A p \in Positions :
            IF p[2] * width + p[1] < pos
            THEN cells[p[2]][p[1]].alive = LifeStep(old_cells, p)
            ELSE cells[p[2]][p[1]] = old_cells[p[2]][p[1]]
        /\ SameLists(cells, old_cells)

WrittenNeighbourStillToVisit ==
    /\ pc = "loop"
    /\ pos < width * height
    /\ \E p \in Positions :
        /\ p[2] * width + p[1] = pos
        /\ \E q \in Moore(p) :
            /\ q[2] * width + q[1] < pos
            /\ cells[q[2]][q[1]].alive # old_cells[q[2]][q[1]].alive

\* C10: on a text of well-formed tokens from_string returns
\* NoCoordinatesFound exactly when there is no token, DuplicateCoordinate
\* exactly when a pair occurs twice, and otherwise Ok with the pairs in the
\* order written; an Ok object is never empty and never repeats a pair.
HasDuplicate(seq) == \E i, j \in 1..Len(seq) : i < j /\ seq[i] = seq[j]

FromStringRejectsEmptyAndDuplicates ==
    parsed.kind # "none" =>
        /\ parsed.kind = "NoCoordinatesFound" <=> tokens = <<>>
        /\ parsed.kind = "DuplicateCoordinate" <=> HasDuplicate(tokens)
        /\ (tokens # <<>> /\ ~HasDuplicate(tokens)) => parsed = Ok(tokens)
        /\ parsed.kind = "Ok" =>
              parsed.coordinates # <<>> /\ ~HasDuplicate(parsed.coordinates)

RepeatedCoordinateRejected ==
    /\ parsed.kind = "DuplicateCoordinate"
    /\ Len(tokens) = 3
    /\ tokens[1] = tokens[3]
    /\ tokens[1] # tokens[2]
    /\ tokens[1] = <<12, 1>>

\* C11: no call changes the grid's width or height, the number of rows
\* and columns, or any cell's neighbour list: advance and load_object write
\* alive flags only, so all of these stay as Grid::new left them.
OnlyAliveFlagsChange ==
    [][/\ width' = width
       /\ height' = height
       /\ SameLists(cells', cells)
       /\ DOMAIN cells' = 0..(height - 1)
       /\ \A y \in DOMAIN cells' : DOMAIN cells'[y] = 0..(width - 1)]_vars

LoadedThenAdvancedTwice ==
    /\ op = "advance"
    /\ ~fresh
    /\ gen = 2
    /\ width = 3
    /\ height = 3
    /\ AliveSet(cells) # AliveSet(initial_cells)
    /\ Len(NeighbourList(<<1, 1>>)) = 8

\* C12: Grid::new with width 0 or height 0 evaluates no subtraction from 0
\* and returns a grid without cells; an advance of that grid returns and
\* leaves it as it was.
ZeroSizedGridIsBuiltAndStays ==
    (width = 0 \/ height = 0) =>
        /\ \A sub \in new_subtractions(width, height) : sub[2] # 0
        /\ op \in {"new", "advance"} => result = "ok"
        /\ DOMAIN cells = 0..(height - 1)
        /\ \A y \in DOMAIN cells : cells[y] = <<>>
        /\ op = "advance" => cells = initial_cells

RowsWithoutCellsAdvanced ==
    /\ width = 0
    /\ height = 3
    /\ op = "advance"
    /\ result = "ok"
    /\ gen = 1

====
